---- MODULE Spec2Model ----
(***************************************************************************)
(* A model of the marketplace backend: the store (users, products, orders, *)
(* order_items, transactions, seller_earnings) and the request handlers of *)
(* routes/orders.js, routes/payments.js, routes/products.js and            *)
(* routes/admin.js that read and write it through database/db.js.          *)
(*                                                                         *)
(* Every handler modelled here is a synchronous JavaScript function: it    *)
(* contains no await, and sql.js and fs.writeFileSync are synchronous, so  *)
(* the runtime runs it to completion before it starts another request.     *)
(* A handler is therefore ONE action.  Requests that are "concurrent" are  *)
(* requests that are in flight at the same time and are handled one after  *)
(* the other in an order the runtime chooses (variable inflight).          *)
(*                                                                         *)
(* No statement is wrapped in a transaction (db.js never issues BEGIN), so *)
(* a handler that throws halfway keeps the writes it has already made.     *)
(* PRAGMA foreign_keys is never set, so SQLite does not enforce the        *)
(* FOREIGN KEY clauses of schema.sql.                                      *)
(***************************************************************************)
EXTENDS Integers, Sequences, FiniteSets, TLC

(***************************************************************************)
(* Bounds of the model.                                                    *)
(***************************************************************************)
MaxOrders == 2      \* orders rows ever created in one behaviour
MaxStock == 2       \* largest stock a product starts with
MaxQty == 2         \* largest quantity of one line item
MaxLedger == 2      \* seller_earnings rows ever created in one behaviour
MaxProducts == 3    \* most products in the catalog
MaxInflight == 2    \* most requests that wait at an await at the same time
MaxEarnings == 3    \* largest size of an earnings total that is adjusted further

(***************************************************************************)
(* Values.                                                                 *)
(***************************************************************************)
NULL == "NULL"                       \* SQL NULL / JS null or undefined
NoToken == "none"                    \* no Authorization header
BadToken == "invalid"                \* a token jwt.verify rejects (bad or expired)
GhostToken == "ghost"                \* a good token of a user id with no users row

Buyers == {"b1", "b2"}
Sellers == {"s1", "s2"}
Superusers == {"su"}
UserIds == Buyers \cup Sellers \cup Superusers

ProductIds == {1, 2}                 \* ids of the products rows
Prices == {1, 2}                     \* prices, in a unit that keeps them whole

VARIABLES
    users,            \* id -> [role, is_active, earnings, email]
    products,         \* id -> [price, stock, is_active]
    orders,           \* sequence of orders rows; the id is the index
    order_items,      \* sequence of order_items rows
    transactions,     \* sequence of transactions rows
    seller_earnings,  \* sequence of seller_earnings rows
    saved,            \* whether the database file holds the store in memory
    writable,         \* whether a write of the database file succeeds
    inflight,         \* requests in flight at the same time, with their answers
    last              \* the request handled last and its answer

vars == <<users, products, orders, order_items, transactions,
          seller_earnings, saved, writable, inflight, last>>

store == <<users, products, orders, order_items, transactions, seller_earnings>>

(***************************************************************************)
(* Generic helpers.                                                        *)
(***************************************************************************)
SelectIdx(s, Test(_)) == {i \in 1..Len(s) : Test(s[i])}

\* An answer: the status code, the kind of error, and for the routes that
\* read rows the ids of the rows in the body (rows) and the order items
\* returned with one order (items).
AnswerItems(req, code, error, rows, items) ==
    [req |-> req, code |-> code, error |-> error, rows |-> rows, items |-> items]

AnswerRows(req, code, error, rows) == AnswerItems(req, code, error, rows, {})

Answer(req, code, error) == AnswerRows(req, code, error, {})

NoAnswer == AnswerRows([op |-> "none"], 0, "", {})

\* A variant of the token check that accepts the token of an inactive user.
authenticateAnyUser(token) ==
    IF token = NoToken THEN 401
    ELSE IF token = BadToken THEN 403
    ELSE IF token \notin DOMAIN users THEN 401
    ELSE 0

(***************************************************************************)
(* middleware/auth.js                                                      *)
(***************************************************************************)
\* authenticateToken: 0 when the request goes on to the next middleware,
\* otherwise the status code it answers.
authenticateToken(token) ==
    IF token = NoToken THEN 401
    ELSE IF token = BadToken THEN 403
    ELSE IF token \notin DOMAIN users \/ ~users[token].is_active THEN 401
    ELSE 0

\* A variant with a hierarchy: the superuser passes every role check.
requireRoleWithHierarchy(token, allowedRoles) ==
    IF users[token].role \in allowedRoles \cup {"superuser"} THEN 0 ELSE 403

\* requireRole(...allowedRoles): a set-membership test on req.user.role.
requireRole(token, allowedRoles) ==
    IF users[token].role \in allowedRoles THEN 0 ELSE 403

\* The guard chain of a protected route.
Guard(token, allowedRoles) ==
    IF authenticateToken(token) # 0 THEN authenticateToken(token)
    ELSE requireRole(token, allowedRoles)

Roles == {"buyer", "seller", "superuser"}

(***************************************************************************)
(* routes/orders.js: POST /  (create order)                                *)
(*                                                                         *)
(* An item is [product_id, quantity, qnull].  qnull says the JSON quantity *)
(* is null: JavaScript then computes with 0 (stock < null is stock < 0,    *)
(* price * null is 0) and sql.js binds SQL NULL.                           *)
(***************************************************************************)
Item(p, q) == [product_id |-> p, quantity |-> q, qnull |-> FALSE]

NullItem(p) == [product_id |-> p, quantity |-> 0, qnull |-> TRUE]

\* getOne('SELECT price, stock FROM products WHERE id = ? AND is_active = 1')
ActiveProduct(prods, p) == p \in DOMAIN prods /\ prods[p].is_active

\* A variant of the first loop that does not compare quantity and stock.
RECURSIVE VerifyItemsIgnoresStock(_, _, _)
VerifyItemsIgnoresStock(prods, items, total) ==
    IF items = <<>> THEN [code |-> 0, error |-> "", total |-> total]
    ELSE LET item == Head(items) IN
         IF ~ActiveProduct(prods, item.product_id)
         THEN [code |-> 400, error |-> "InvalidProduct", total |-> total]
         ELSE VerifyItemsIgnoresStock(prods, Tail(items),
                          total + prods[item.product_id].price * item.quantity)

\* The first loop: verify every item against the stock as it is now and add
\* up the total.  Nothing is written in this loop.
RECURSIVE VerifyItems(_, _, _)
VerifyItems(prods, items, total) ==
    IF items = <<>> THEN [code |-> 0, error |-> "", total |-> total]
    ELSE LET item == Head(items) IN
         IF ~ActiveProduct(prods, item.product_id)
         THEN [code |-> 400, error |-> "InvalidProduct", total |-> total]
         ELSE IF prods[item.product_id].stock < item.quantity
         THEN [code |-> 400, error |-> "InsufficientStock", total |-> total]
         ELSE VerifyItems(prods, Tail(items),
                          total + prods[item.product_id].price * item.quantity)

\* The order_items row of one item: the price is the product's price now.
\* A variant of the order_items row that records one unit whatever was ordered.
ItemRowOneUnit(prods, orderId, item) ==
    [order_id |-> orderId, product_id |-> item.product_id,
     quantity |-> 1, price |-> prods[item.product_id].price]

ItemRow(prods, orderId, item) ==
    [order_id |-> orderId, product_id |-> item.product_id,
     quantity |-> item.quantity, price |-> prods[item.product_id].price]

\* A variant that takes one unit whatever the quantity.
DecrementStockByOne(prods, item) ==
    [prods EXCEPT ![item.product_id].stock = @ - 1]

\* UPDATE products SET stock = stock - ? WHERE id = ?
DecrementStock(prods, item) ==
    [prods EXCEPT ![item.product_id].stock = @ - item.quantity]

\* The second loop: per item, INSERT INTO order_items and then UPDATE
\* products.  order_items.quantity is NOT NULL, so the insert of an item
\* whose quantity is null throws; the loop stops there and what the earlier
\* iterations wrote stays written.
RECURSIVE WriteItems(_, _, _, _)
WriteItems(prods, rows, orderId, items) ==
    IF items = <<>> THEN [products |-> prods, order_items |-> rows, threw |-> FALSE]
    ELSE LET item == Head(items) IN
         IF item.qnull
         THEN [products |-> prods, order_items |-> rows, threw |-> TRUE]
         ELSE WriteItems(DecrementStock(prods, item),
                         Append(rows, ItemRow(prods, orderId, item)),
                         orderId, Tail(items))

\* INSERT INTO orders (buyer_id, status, total_amount, ...)
OrderRow(buyer, total) ==
    [buyer_id |-> buyer, seller_id |-> NULL, status |-> "pending",
     total_amount |-> total, payment_proof |-> NULL, binance_txid |-> NULL]

createOrder(req) ==
    LET g == Guard(req.token, {"buyer"})
        v == VerifyItems(products, req.items, 0)
        orderId == Len(orders) + 1
        w == WriteItems(products, order_items, orderId, req.items)
    IN
    /\ UNCHANGED <<users, transactions, seller_earnings>>
    /\ IF g # 0 THEN
           /\ last' = Answer(req, g, "Auth")
           /\ UNCHANGED <<products, orders, order_items>>
       ELSE IF req.items = <<>> \/ ~req.contact THEN
           /\ last' = Answer(req, 400, "Validation")
           /\ UNCHANGED <<products, orders, order_items>>
       ELSE IF v.code # 0 THEN
           /\ last' = Answer(req, v.code, v.error)
           /\ UNCHANGED <<products, orders, order_items>>
       ELSE
           /\ orders' = Append(orders, OrderRow(req.token, v.total))
           /\ products' = w.products
           /\ order_items' = w.order_items
           /\ last' = IF w.threw THEN Answer(req, 500, "StorageError")
                                 ELSE Answer(req, 201, "")

\* The item lists a request may carry: up to two items, a product named
\* twice, a product that does not exist, a null quantity.
ItemChoices ==
    {Item(p, q) : p \in ProductIds \cup {3}, q \in 1..MaxQty}
        \cup {NullItem(p) : p \in ProductIds}

SecondItems == {Item(p, 1) : p \in ProductIds} \cup {NullItem(2)}

ItemLists ==
    {<<>>} \cup {<<i>> : i \in ItemChoices}
           \cup {<<i, j>> : i \in ItemChoices, j \in SecondItems}

CreateOrderRequest(token, items, contact) ==
    [op |-> "createOrder", token |-> token, items |-> items, contact |-> contact]

(***************************************************************************)
(* routes/orders.js: GET / (list orders) and GET /:id (get order)          *)
(*                                                                         *)
(* Both read and write nothing.  The answer of the list is modelled by the *)
(* set of ids of the orders it returns.                                    *)
(***************************************************************************)
\* A variant of the query in which a seller sees the orders assigned to
\* that seller only.
ListQueryOwnOnly(user) ==
    {o \in 1..Len(orders) :
        /\ orders[o].buyer_id \in DOMAIN users
        /\ \/ users[user].role = "buyer" /\ orders[o].buyer_id = user
           \/ users[user].role = "seller" /\ orders[o].seller_id = user
           \/ users[user].role \notin {"buyer", "seller"}}

\* SELECT o.* FROM orders o JOIN users u ON o.buyer_id = u.id, with the
\* WHERE clause the handler appends for the caller's role.
ListQuery(user) ==
    {o \in 1..Len(orders) :
        /\ orders[o].buyer_id \in DOMAIN users
        /\ \/ users[user].role = "buyer" /\ orders[o].buyer_id = user
           \/ /\ users[user].role = "seller"
              /\ (orders[o].seller_id = user \/ orders[o].status = "pending")
           \/ users[user].role \notin {"buyer", "seller"}}

listOrders(req) ==
    LET g == authenticateToken(req.token) IN
    /\ UNCHANGED store
    /\ last' = IF g # 0 THEN Answer(req, g, "Auth")
               ELSE AnswerRows(req, 200, "", ListQuery(req.token))

ListOrdersRequest(token) == [op |-> "listOrders", token |-> token]

\* A variant of the items query that leaves out deleted products.
OrderItemsActiveOnly(id) ==
    {[product_id |-> order_items[k].product_id,
      quantity |-> order_items[k].quantity, price |-> order_items[k].price] :
        k \in {i \in 1..Len(order_items) :
                  /\ order_items[i].order_id = id
                  /\ order_items[i].product_id \in DOMAIN products
                  /\ products[order_items[i].product_id].is_active}}

\* SELECT oi.*, p.name FROM order_items oi JOIN products p
\* ON oi.product_id = p.id WHERE oi.order_id = ?
OrderItemsQuery(id) ==
    {[product_id |-> order_items[k].product_id,
      quantity |-> order_items[k].quantity, price |-> order_items[k].price] :
        k \in {i \in 1..Len(order_items) :
                  /\ order_items[i].order_id = id
                  /\ order_items[i].product_id \in DOMAIN products}}

\* A variant of the permission check that hides unclaimed pending orders
\* from sellers.
ViewCodeNoPool(user, order) ==
    IF users[user].role = "buyer" /\ order.buyer_id # user THEN 403
    ELSE IF users[user].role = "seller" /\ order.seller_id # user THEN 403
    ELSE 200

\* The permission check of GET /:id, branch by branch.
ViewCode(user, order) ==
    IF users[user].role = "buyer" /\ order.buyer_id # user THEN 403
    ELSE IF /\ users[user].role = "seller" /\ order.seller_id # user
            /\ order.status = "pending" THEN 200
    ELSE IF users[user].role = "seller" /\ order.seller_id # user THEN 403
    ELSE 200

getOrder(req) ==
    LET g == authenticateToken(req.token) IN
    /\ UNCHANGED store
    /\ last' =
          IF g # 0 THEN Answer(req, g, "Auth")
          ELSE IF ~(req.order_id \in 1..Len(orders)
                      /\ orders[req.order_id].buyer_id \in DOMAIN users)
          THEN Answer(req, 404, "NotFound")
          ELSE IF ViewCode(req.token, orders[req.order_id]) = 403
          THEN Answer(req, 403, "Forbidden")
          ELSE AnswerItems(req, 200, "", {req.order_id},
                           OrderItemsQuery(req.order_id))

GetOrderRequest(token, id) == [op |-> "getOrder", token |-> token, order_id |-> id]

(***************************************************************************)
(* routes/orders.js: PUT /:id/status                                       *)
(***************************************************************************)
validStatuses == {"pending", "processing", "completed", "cancelled"}

OrderExists(id) == id \in 1..Len(orders)

\* A variant that ignores the seller_id of the body.
ClaimSellerActing(req) == req.token

\* The seller written by the claim branch: seller_id || req.user.id
ClaimSeller(req) == IF req.seller_id # NULL THEN req.seller_id ELSE req.token

\* A variant that writes the seller on every change to processing.
StatusUpdateReassigns(order, req) ==
    IF req.status = "processing"
    THEN [order EXCEPT !.status = req.status, !.seller_id = ClaimSeller(req)]
    ELSE [order EXCEPT !.status = req.status]

\* The row after the UPDATE the handler picks: status and seller_id when the
\* target is processing and the order has no seller, status alone otherwise.
StatusUpdate(order, req) ==
    IF req.status = "processing" /\ order.seller_id = NULL
    THEN [order EXCEPT !.status = req.status, !.seller_id = ClaimSeller(req)]
    ELSE [order EXCEPT !.status = req.status]

updateStatus(req) ==
    LET g == Guard(req.token, {"seller", "superuser"}) IN
    /\ UNCHANGED <<users, products, order_items, transactions, seller_earnings>>
    /\ IF g # 0 THEN
           /\ last' = Answer(req, g, "Auth")
           /\ UNCHANGED orders
       ELSE IF req.status \notin validStatuses THEN
           /\ last' = Answer(req, 400, "Validation")
           /\ UNCHANGED orders
       ELSE IF ~OrderExists(req.order_id) THEN
           /\ last' = Answer(req, 404, "NotFound")
           /\ UNCHANGED orders
       ELSE
           /\ orders' = [orders EXCEPT
                            ![req.order_id] = StatusUpdate(orders[req.order_id], req)]
           /\ last' = Answer(req, 200, "")

UpdateStatusRequest(token, id, status, seller) ==
    [op |-> "updateStatus", token |-> token, order_id |-> id,
     status |-> status, seller_id |-> seller]

(***************************************************************************)
(* routes/orders.js: POST /:id/payment-proof                               *)
(*                                                                         *)
(* A request carries payment_proof and binance_txid; complete is FALSE for *)
(* a body that lacks one of them (undefined, which sql.js refuses to bind  *)
(* when the first statement binds it).                                     *)
(***************************************************************************)
\* A variant of the lookup without the buyer_id condition.
AnyOrder(id, user) == OrderExists(id)

\* getOne('SELECT * FROM orders WHERE id = ? AND buyer_id = ?')
OwnedOrder(id, user) == OrderExists(id) /\ orders[id].buyer_id = user

\* A variant that records the transaction as verified at once.
TransactionRowVerified(id, user, amount) ==
    [order_id |-> id, user_id |-> user, amount |-> amount, status |-> "verified"]

\* INSERT INTO transactions (order_id, user_id, amount, ..., 'pending')
TransactionRow(id, user, amount) ==
    [order_id |-> id, user_id |-> user, amount |-> amount, status |-> "pending"]

submitPaymentProof(req) ==
    LET g == Guard(req.token, {"buyer"}) IN
    /\ UNCHANGED <<users, products, order_items, seller_earnings>>
    /\ IF g # 0 THEN
           /\ last' = Answer(req, g, "Auth")
           /\ UNCHANGED <<orders, transactions>>
       ELSE IF ~OwnedOrder(req.order_id, req.token) THEN
           /\ last' = Answer(req, 404, "NotFound")
           /\ UNCHANGED <<orders, transactions>>
       ELSE IF ~req.complete THEN
           /\ last' = Answer(req, 500, "StorageError")
           /\ UNCHANGED <<orders, transactions>>
       ELSE
           /\ orders' = [orders EXCEPT
                            ![req.order_id].payment_proof = req.payment_proof,
                            ![req.order_id].binance_txid = req.binance_txid]
           /\ transactions' =
                  Append(transactions,
                         TransactionRow(req.order_id, req.token,
                                        orders[req.order_id].total_amount))
           /\ last' = Answer(req, 200, "")

PaymentProofRequest(token, id, proof, complete) ==
    [op |-> "submitPaymentProof", token |-> token, order_id |-> id,
     payment_proof |-> proof, binance_txid |-> "txid", complete |-> complete]

(***************************************************************************)
(* routes/payments.js: POST /create                                        *)
(***************************************************************************)
createPaymentOrder(req) ==
    LET g == authenticateToken(req.token) IN
    /\ UNCHANGED <<users, products, order_items, transactions, seller_earnings>>
    /\ IF g # 0 THEN
           /\ last' = Answer(req, g, "Auth")
           /\ UNCHANGED orders
       ELSE IF req.order_id = 0 \/ req.amount = 0 THEN
           /\ last' = Answer(req, 400, "Validation")
           /\ UNCHANGED orders
       ELSE IF ~OwnedOrder(req.order_id, req.token) THEN
           /\ last' = Answer(req, 404, "NotFound")
           /\ UNCHANGED orders
       ELSE
           /\ orders' = [orders EXCEPT ![req.order_id].binance_txid = "SIMULATED"]
           /\ last' = Answer(req, 200, "")

PaymentOrderRequest(token, id, amount) ==
    [op |-> "createPaymentOrder", token |-> token, order_id |-> id,
     amount |-> amount]

(***************************************************************************)
(* routes/payments.js: POST /webhook                                       *)
(*                                                                         *)
(* A request carries bizStatus, the trade reference as the sequence of the *)
(* parts that '_' separates, and whether its BinancePay-Signature header   *)
(* is the provider's signature of the body (signed).  The handler reads    *)
(* the signature header and never compares it: the comparison is commented *)
(* out.                                                                    *)
(*                                                                         *)
(* server.js installs express.json() for every route before the routers,   *)
(* so the route's own express.raw() finds the body already parsed and      *)
(* skips: req.body is the parsed JSON value, not a Buffer.  The handler    *)
(* parses req.body.toString().  For a JSON object (form "object", what the *)
(* provider posts) that text is "[object Object]" and JSON.parse throws.   *)
(* For a JSON array holding the payload text as its one string (form       *)
(* "array") toString() yields that text and the handler goes on.           *)
(***************************************************************************)
\* The reference createPaymentOrder gives the provider for order id:
\* `ORDER_${order_id}_${timestamp}`.
TradeRef(id) == <<"ORDER", id, "timestamp">>

\* merchantTradeNo.split('_')[1]; 0 stands for undefined (a reference with
\* no '_'), which sql.js refuses to bind.
TradeOrderId(ref) == IF Len(ref) >= 2 THEN ref[2] ELSE 0

\* JSON.parse(req.body.toString()): whether it yields the payload.
BodyParses(req) == req.form = "array"

\* schema.sql: whether the transactions table has the updated_at column the
\* webhook's second statement sets.
TransactionsHasUpdatedAt == FALSE

\* UPDATE orders SET status = 'processing' WHERE id = ?
MarkProcessing(ords, id) ==
    IF id \in 1..Len(ords) THEN [ords EXCEPT ![id].status = "processing"] ELSE ords

\* UPDATE transactions SET status = 'verified', updated_at = ... WHERE
\* order_id = ?: every transaction of the order.
VerifyRows(trans, id) ==
    [i \in 1..Len(trans) |->
        IF trans[i].order_id = id THEN [trans[i] EXCEPT !.status = "verified"]
                                  ELSE trans[i]]

\* The second runQuery of the handler: db.prepare throws on a column the
\* table does not have, before any row changes.
VerifyTransactions(trans, id) ==
    IF TransactionsHasUpdatedAt
    THEN [transactions |-> VerifyRows(trans, id), threw |-> FALSE]
    ELSE [transactions |-> trans, threw |-> TRUE]

webhook(req) ==
    LET orderId == TradeOrderId(req.ref)
        v == VerifyTransactions(transactions, orderId)
    IN
    /\ UNCHANGED <<users, products, order_items, seller_earnings>>
    /\ IF ~BodyParses(req) THEN
           /\ last' = Answer(req, 500, "StorageError")
           /\ UNCHANGED <<orders, transactions>>
       ELSE IF req.bizStatus # "PAY_SUCCESS" THEN
           /\ last' = Answer(req, 200, "")
           /\ UNCHANGED <<orders, transactions>>
       ELSE IF orderId = 0 THEN
           /\ last' = Answer(req, 500, "StorageError")
           /\ UNCHANGED <<orders, transactions>>
       ELSE
           /\ orders' = MarkProcessing(orders, orderId)
           /\ transactions' = v.transactions
           /\ last' = IF v.threw THEN Answer(req, 500, "StorageError")
                                 ELSE Answer(req, 200, "")

WebhookRequest(form, biz, ref, signed) ==
    [op |-> "webhook", form |-> form, bizStatus |-> biz, ref |-> ref,
     signed |-> signed]

(***************************************************************************)
(* routes/products.js: PUT /:id and DELETE /:id                            *)
(*                                                                         *)
(* A products row is modelled by its price, stock and is_active.  The      *)
(* request's is_active is "true", "false" or "absent"; the handler writes  *)
(* is_active ? 1 : 0.  complete says that the body carries every other     *)
(* column the statement binds (a missing one is undefined, which sql.js    *)
(* refuses to bind).                                                       *)
(***************************************************************************)
ProductUpdate(row, req) ==
    [row EXCEPT !.price = req.price, !.stock = req.stock,
                !.is_active = (req.is_active = "true")]

updateProduct(req) ==
    LET g == Guard(req.token, {"superuser"}) IN
    /\ UNCHANGED <<users, orders, order_items, transactions, seller_earnings>>
    /\ IF g # 0 THEN
           /\ last' = Answer(req, g, "Auth")
           /\ UNCHANGED products
       ELSE IF ~req.complete THEN
           /\ last' = Answer(req, 500, "StorageError")
           /\ UNCHANGED products
       ELSE
           /\ products' = [p \in DOMAIN products |->
                              IF p = req.id THEN ProductUpdate(products[p], req)
                                            ELSE products[p]]
           /\ last' = Answer(req, 200, "")

UpdateProductRequest(token, id, price, stock, active, complete) ==
    [op |-> "updateProduct", token |-> token, id |-> id, price |-> price,
     stock |-> stock, is_active |-> active, complete |-> complete]

\* POST /products.  The body's name is present or not (named), its
\* category_id is 0 when missing; a price or stock of 0 stands for a missing
\* one as well, as the handler treats the two alike.  A body without
\* description or image_url is not complete: the bind of undefined throws.
\* The id is the next AUTOINCREMENT value; the row is active by default.
\* No foreign key is enforced, so any category_id is stored.
createProduct(req) ==
    LET g == Guard(req.token, {"superuser"})
        id == Cardinality(DOMAIN products) + 1 IN
    /\ UNCHANGED <<users, orders, order_items, transactions, seller_earnings>>
    /\ IF g # 0 THEN
           /\ last' = Answer(req, g, "Auth")
           /\ UNCHANGED products
       ELSE IF ~req.named \/ req.price = 0 \/ req.category_id = 0 THEN
           /\ last' = Answer(req, 400, "Validation")
           /\ UNCHANGED products
       ELSE IF ~req.complete THEN
           /\ last' = Answer(req, 500, "StorageError")
           /\ UNCHANGED products
       ELSE
           /\ products' = [p \in DOMAIN products \cup {id} |->
                              IF p = id
                              THEN [price |-> req.price, stock |-> req.stock,
                                    is_active |-> TRUE]
                              ELSE products[p]]
           /\ last' = Answer(req, 201, "")

CreateProductRequest(token, named, price, stock, category, complete) ==
    [op |-> "createProduct", token |-> token, named |-> named, price |-> price,
     stock |-> stock, category_id |-> category, complete |-> complete]

\* UPDATE products SET is_active = 0 WHERE id = ?
deleteProduct(req) ==
    LET g == Guard(req.token, {"superuser"}) IN
    /\ UNCHANGED <<users, orders, order_items, transactions, seller_earnings>>
    /\ IF g # 0 THEN
           /\ last' = Answer(req, g, "Auth")
           /\ UNCHANGED products
       ELSE
           /\ products' = [p \in DOMAIN products |->
                              IF p = req.id THEN [products[p] EXCEPT !.is_active = FALSE]
                                            ELSE products[p]]
           /\ last' = Answer(req, 200, "")

DeleteProductRequest(token, id) ==
    [op |-> "deleteProduct", token |-> token, id |-> id]

(***************************************************************************)
(* routes/products.js: GET / (list products) and GET /:id (get product)    *)
(*                                                                         *)
(* Public routes; they read and write nothing.  Every product of the model *)
(* has a category, so the join with categories drops none.                 *)
(***************************************************************************)
\* SELECT p.* FROM products p JOIN categories c ... WHERE p.is_active = 1
ActiveProducts == {p \in DOMAIN products : products[p].is_active}

listProducts(req) ==
    /\ UNCHANGED store
    /\ last' = AnswerRows(req, 200, "", ActiveProducts)

ListProductsRequest == [op |-> "listProducts"]

getProduct(req) ==
    /\ UNCHANGED store
    /\ last' = IF req.id \in ActiveProducts
               THEN AnswerRows(req, 200, "", {req.id})
               ELSE Answer(req, 404, "NotFound")

GetProductRequest(id) == [op |-> "getProduct", id |-> id]

(***************************************************************************)
(* routes/admin.js: POST /sellers/:id/sales  (assign sale)                 *)
(*                                                                         *)
(* A request carries the seller id of the path, order_id and amount (0 for *)
(* a missing or zero value, which "!x" rejects).  bindable is FALSE for an *)
(* amount that is a JSON object: truthy, and refused by sql.js when the    *)
(* first statement binds it.                                               *)
(***************************************************************************)
\* getOne('SELECT * FROM users WHERE id = ? AND role = ?', [id, 'seller'])
SellerExists(id) == id \in DOMAIN users /\ users[id].role = "seller"

\* INSERT INTO seller_earnings (seller_id, order_id, amount)
EarningRow(req) ==
    [seller_id |-> req.seller, order_id |-> req.order_id, amount |-> req.amount]

\* A variant that overwrites the total instead of adding to it.
AddEarningsOverwrites(us, req) == [us EXCEPT ![req.seller].earnings = req.amount]

\* UPDATE users SET earnings = earnings + ? WHERE id = ?
AddEarnings(us, req) == [us EXCEPT ![req.seller].earnings = @ + req.amount]

\* A variant in which the failure comes after the first write.
SaleWritesFailsLate(req) ==
    IF ~req.bindable
    THEN [seller_earnings |-> Append(seller_earnings, EarningRow(req)),
          users |-> users, threw |-> TRUE]
    ELSE [seller_earnings |-> Append(seller_earnings, EarningRow(req)),
          users |-> AddEarnings(users, req), threw |-> FALSE]

\* The two writes of the handler, in the order it makes them.  The only
\* failure a request can cause is the bind of the first statement, before
\* either write.
SaleWrites(req) ==
    IF ~req.bindable
    THEN [seller_earnings |-> seller_earnings, users |-> users, threw |-> TRUE]
    ELSE [seller_earnings |-> Append(seller_earnings, EarningRow(req)),
          users |-> AddEarnings(users, req), threw |-> FALSE]

assignSale(req) ==
    LET g == Guard(req.token, {"superuser"})
        w == SaleWrites(req)
    IN
    /\ UNCHANGED <<products, orders, order_items, transactions>>
    /\ IF g # 0 THEN
           /\ last' = Answer(req, g, "Auth")
           /\ UNCHANGED <<users, seller_earnings>>
       ELSE IF req.order_id = 0 \/ (req.bindable /\ req.amount = 0) THEN
           /\ last' = Answer(req, 400, "Validation")
           /\ UNCHANGED <<users, seller_earnings>>
       ELSE IF ~SellerExists(req.seller) THEN
           /\ last' = Answer(req, 404, "NotFound")
           /\ UNCHANGED <<users, seller_earnings>>
       ELSE
           /\ seller_earnings' = w.seller_earnings
           /\ users' = w.users
           /\ last' = IF w.threw THEN Answer(req, 500, "StorageError")
                                 ELSE Answer(req, 200, "")

AssignSaleRequest(token, seller, id, amount, bindable) ==
    [op |-> "assignSale", token |-> token, seller |-> seller, order_id |-> id,
     amount |-> amount, bindable |-> bindable]

(***************************************************************************)
(* routes/admin.js: PUT /sellers/:id/earnings  (set or add earnings)       *)
(*                                                                         *)
(* A request carries the seller id of the path, amount (0 for a missing or *)
(* zero value) and operation ("none" when the body has none).              *)
(***************************************************************************)
\* newEarnings: seller.earnings + amount for 'add', amount for 'set'.
NewEarnings(row, req) ==
    IF req.operation = "add" THEN row.earnings + req.amount ELSE req.amount

setOrAddEarnings(req) ==
    LET g == Guard(req.token, {"superuser"}) IN
    /\ UNCHANGED <<products, orders, order_items, transactions, seller_earnings>>
    /\ IF g # 0 THEN
           /\ last' = Answer(req, g, "Auth")
           /\ UNCHANGED users
       ELSE IF req.amount = 0 \/ req.operation = "none" THEN
           /\ last' = Answer(req, 400, "Validation")
           /\ UNCHANGED users
       ELSE IF ~SellerExists(req.seller) THEN
           /\ last' = Answer(req, 404, "NotFound")
           /\ UNCHANGED users
       ELSE IF req.operation \notin {"add", "set"} THEN
           /\ last' = Answer(req, 400, "Validation")
           /\ UNCHANGED users
       ELSE
           /\ users' = [users EXCEPT
                           ![req.seller].earnings = NewEarnings(users[req.seller], req)]
           /\ last' = Answer(req, 200, "")

EarningsRequest(token, seller, amount, operation) ==
    [op |-> "setOrAddEarnings", token |-> token, seller |-> seller,
     amount |-> amount, operation |-> operation]

(***************************************************************************)
(* routes/admin.js: DELETE /sellers/:id  (deactivate seller)               *)
(***************************************************************************)
\* UPDATE users SET is_active = 0 WHERE id = ? AND role = 'seller'
\* A variant of the deactivation without the test of the role.
DeactivateAnyRole(us, id) ==
    [u \in DOMAIN us |->
        IF u = id THEN [us[u] EXCEPT !.is_active = FALSE] ELSE us[u]]

Deactivate(us, id) ==
    [u \in DOMAIN us |->
        IF u = id /\ us[u].role = "seller" THEN [us[u] EXCEPT !.is_active = FALSE]
                                           ELSE us[u]]

deleteSeller(req) ==
    LET g == Guard(req.token, {"superuser"}) IN
    /\ UNCHANGED <<products, orders, order_items, transactions, seller_earnings>>
    /\ IF g # 0 THEN
           /\ last' = Answer(req, g, "Auth")
           /\ UNCHANGED users
       ELSE
           /\ users' = Deactivate(users, req.seller)
           /\ last' = Answer(req, 200, "")

(***************************************************************************)
(* routes/admin.js: PUT /sellers/:id  (update seller)                      *)
(*                                                                         *)
(* With a password in the body the handler awaits bcrypt.hash between the  *)
(* read of the seller and the UPDATE: it waits in inflight with the row it *)
(* read, and the UPDATE writes is_active from the body or from that row.   *)
(***************************************************************************)
\* The requests that still wait once request i has resumed and answered.
Resumed(waiting, i) ==
    [k \in 1..(Len(waiting) - 1) |-> IF k < i THEN waiting[k] ELSE waiting[k + 1]]

SellerUpdate(row, seen, req) ==
    [row EXCEPT !.is_active = IF req.is_active = NULL THEN seen.is_active
                              ELSE req.is_active = "true"]

updateSeller(req) ==
    LET g == Guard(req.token, {"superuser"}) IN
    /\ UNCHANGED <<products, orders, order_items, transactions, seller_earnings>>
    /\ IF g # 0 THEN
           /\ last' = Answer(req, g, "Auth")
           /\ UNCHANGED <<users, inflight>>
       ELSE IF ~SellerExists(req.id) THEN
           /\ last' = Answer(req, 404, "NotFound")
           /\ UNCHANGED <<users, inflight>>
       ELSE IF req.password THEN
           /\ Len(inflight) < MaxInflight
           /\ inflight' = Append(inflight, [req |-> req, seen |-> users[req.id],
                                            answer |-> NoAnswer])
           /\ UNCHANGED <<users, last>>
       ELSE
           /\ users' = [users EXCEPT
                           ![req.id] = SellerUpdate(users[req.id], users[req.id], req)]
           /\ last' = Answer(req, 200, "")
           /\ UNCHANGED inflight

\* The rest of updateSeller, after bcrypt.hash.
updateSellerAfterHash(i) ==
    LET req == inflight[i].req IN
    /\ inflight[i].req.op = "updateSeller" /\ inflight[i].answer.code = 0
    /\ UNCHANGED <<products, orders, order_items, transactions, seller_earnings>>
    /\ users' = [users EXCEPT
                    ![req.id] = SellerUpdate(users[req.id], inflight[i].seen, req)]
    /\ last' = Answer(req, 200, "")
    /\ inflight' = Resumed(inflight, i)

UpdateSellerRequest(token, id, active, password) ==
    [op |-> "updateSeller", token |-> token, id |-> id, is_active |-> active,
     password |-> password]

(***************************************************************************)
(* routes/auth.js: POST /login                                             *)
(*                                                                         *)
(* The handler awaits bcrypt.compare between the read of the user and the  *)
(* answer.  matches: the password of the body is the user's.               *)
(***************************************************************************)
ActiveUserWithEmail(email) ==
    {u \in DOMAIN users : users[u].email = email /\ users[u].is_active}

login(req) ==
    /\ UNCHANGED store
    /\ IF req.email = NULL \/ req.password = NULL THEN
           /\ last' = Answer(req, 400, "Validation")
           /\ UNCHANGED inflight
       ELSE IF ActiveUserWithEmail(req.email) = {} THEN
           /\ last' = Answer(req, 401, "Auth")
           /\ UNCHANGED inflight
       ELSE
           /\ Len(inflight) < MaxInflight
           /\ inflight' = Append(inflight,
                                 [req |-> req,
                                  seen |-> CHOOSE u \in ActiveUserWithEmail(req.email) : TRUE,
                                  answer |-> NoAnswer])
           /\ UNCHANGED last

\* The rest of login, after bcrypt.compare; the body of the 200 answer
\* names the user that was read.
loginAfterCompare(i) ==
    LET req == inflight[i].req IN
    /\ inflight[i].req.op = "login" /\ inflight[i].answer.code = 0
    /\ UNCHANGED store
    /\ last' = IF req.password = "matches"
               THEN AnswerRows(req, 200, "", {inflight[i].seen})
               ELSE Answer(req, 401, "Auth")
    /\ inflight' = Resumed(inflight, i)

LoginRequest(email, password) ==
    [op |-> "login", email |-> email, password |-> password]

(***************************************************************************)
(* routes/auth.js: POST /register and routes/admin.js: POST /sellers       *)
(*                                                                         *)
(* Both handlers look the email up, await bcrypt.hash and then INSERT the  *)
(* user.  users.email is UNIQUE: the INSERT of an email that is stored by  *)
(* then throws, and the catch answers 500.                                 *)
(***************************************************************************)
NewIds == <<"n1", "n2">>

\* The id AUTOINCREMENT gives to the next user.
NextUserId == NewIds[Cardinality(DOMAIN users) - Cardinality(UserIds) + 1]

EmailStored(email) == \E u \in DOMAIN users : users[u].email = email

UserRow(email, role) ==
    [role |-> role, is_active |-> TRUE, earnings |-> 0, email |-> email]

\* The part of both handlers up to the await.
CheckAccount(req) ==
    /\ UNCHANGED store
    /\ IF req.email = NULL \/ req.password = NULL THEN
           /\ last' = Answer(req, 400, "Validation")
           /\ UNCHANGED inflight
       ELSE IF EmailStored(req.email) THEN
           /\ last' = Answer(req, 400, "Duplicate")
           /\ UNCHANGED inflight
       ELSE
           /\ Len(inflight) < MaxInflight
           /\ inflight' = Append(inflight, [req |-> req, seen |-> NULL,
                                            answer |-> NoAnswer])
           /\ UNCHANGED last

\* The part of both handlers after the await.
InsertAccount(i, role) ==
    LET req == inflight[i].req IN
    /\ UNCHANGED <<products, orders, order_items, transactions, seller_earnings>>
    /\ inflight' = Resumed(inflight, i)
    /\ IF EmailStored(req.email) THEN
           /\ last' = Answer(req, 500, "StorageError")
           /\ UNCHANGED users
       ELSE
           /\ users' = [u \in DOMAIN users \cup {NextUserId} |->
                           IF u = NextUserId THEN UserRow(req.email, role)
                                             ELSE users[u]]
           /\ last' = AnswerRows(req, 201, "", {NextUserId})

register(req) == CheckAccount(req)

registerAfterHash(i) ==
    /\ inflight[i].req.op = "register" /\ inflight[i].answer.code = 0
    /\ InsertAccount(i, "buyer")

RegisterRequest(email, password) ==
    [op |-> "register", email |-> email, password |-> password]

createSeller(req) ==
    LET g == Guard(req.token, {"superuser"}) IN
    IF g # 0 THEN
        /\ last' = Answer(req, g, "Auth")
        /\ UNCHANGED <<store, inflight>>
    ELSE CheckAccount(req)

createSellerAfterHash(i) ==
    /\ inflight[i].req.op = "createSeller" /\ inflight[i].answer.code = 0
    /\ InsertAccount(i, "seller")

CreateSellerRequest(token, email, password) ==
    [op |-> "createSeller", token |-> token, email |-> email,
     password |-> password]

DeleteSellerRequest(token, seller) ==
    [op |-> "deleteSeller", token |-> token, seller |-> seller]

(***************************************************************************)
(* The initial store: the database file as initializeDatabase loads it,    *)
(* with accounts and products and no orders yet.                           *)
(***************************************************************************)
RoleOf(u) == IF u \in Buyers THEN "buyer"
             ELSE IF u \in Sellers THEN "seller" ELSE "superuser"

\* Every seeded user has an email of its own, written as the user's id.
InitUsers ==
    [u \in UserIds |->
        [role |-> RoleOf(u), is_active |-> TRUE, earnings |-> 0, email |-> u]]

ProductRows == [price : Prices, stock : 0..MaxStock, is_active : {TRUE}]

InitStore(prods) ==
    /\ users = InitUsers
    /\ products = prods
    /\ orders = <<>>
    /\ order_items = <<>>
    /\ transactions = <<>>
    /\ seller_earnings = <<>>
    /\ saved = TRUE
    /\ writable = TRUE

Tokens == UserIds \cup {NoToken, BadToken, GhostToken}

(***************************************************************************)
(* The actions: a handler run on one request of a given set.  A request    *)
(* that is not in flight with another leaves inflight alone.               *)
(***************************************************************************)
\* saveDatabase: the file is written after every query that ran, and a
\* failure of the write is logged and swallowed.  ran: the handler made a
\* runQuery call whose statement completed.
Persist(ran) ==
    /\ writable' = writable
    /\ saved' = IF ran THEN writable ELSE saved

\* Every writing handler but the webhook answers 200 or 201 only after all
\* its runQuery calls, and its first runQuery call changes the store.
Wrote == store' # store \/ last'.code \in {200, 201}

\* The webhook runs its first UPDATE, of no rows perhaps, on every
\* PAY_SUCCESS notification with a reference that holds an order id.
WebhookWrote(req) ==
    BodyParses(req) /\ req.bizStatus = "PAY_SUCCESS" /\ TradeOrderId(req.ref) # 0

\* fs.writeFileSync starts to fail (disk full, file not writable) ...
DiskFails ==
    /\ writable /\ writable' = FALSE
    /\ UNCHANGED <<store, saved, inflight, last>>

\* ... and succeeds again.
DiskRecovers ==
    /\ ~writable /\ writable' = TRUE
    /\ UNCHANGED <<store, saved, inflight, last>>

CreateOrder(requests) ==
    /\ Len(orders) < MaxOrders
    /\ \E req \in requests : createOrder(req)
    /\ Persist(Wrote)
    /\ UNCHANGED inflight

UpdateStatus(requests) ==
    /\ \E req \in requests : updateStatus(req)
    /\ Persist(Wrote)
    /\ UNCHANGED inflight

SubmitPaymentProof(requests) ==
    /\ Len(transactions) < MaxOrders
    /\ \E req \in requests : submitPaymentProof(req)
    /\ Persist(Wrote)
    /\ UNCHANGED inflight

CreatePaymentOrder(requests) ==
    /\ \E req \in requests : createPaymentOrder(req)
    /\ Persist(Wrote)
    /\ UNCHANGED inflight

Webhook(requests) ==
    /\ \E req \in requests : webhook(req) /\ Persist(WebhookWrote(req))
    /\ UNCHANGED inflight

UpdateProduct(requests) ==
    /\ \E req \in requests : updateProduct(req)
    /\ Persist(Wrote)
    /\ UNCHANGED inflight

CreateProduct(requests) ==
    /\ Cardinality(DOMAIN products) < MaxProducts
    /\ \E req \in requests : createProduct(req)
    /\ Persist(Wrote)
    /\ UNCHANGED inflight

DeleteProduct(requests) ==
    /\ \E req \in requests : deleteProduct(req)
    /\ Persist(Wrote)
    /\ UNCHANGED inflight

AssignSale(requests) ==
    /\ Len(seller_earnings) < MaxLedger
    /\ \E req \in requests : assignSale(req)
    /\ Persist(Wrote)
    /\ UNCHANGED inflight

\* Totals are followed up to MaxEarnings in size.
SetOrAddEarnings(requests) ==
    /\ \E req \in requests : setOrAddEarnings(req)
    /\ \A u \in DOMAIN users :
           users'[u].earnings \in -MaxEarnings..MaxEarnings
    /\ Persist(Wrote)
    /\ UNCHANGED inflight

DeleteSeller(requests) ==
    /\ \E req \in requests : deleteSeller(req)
    /\ Persist(Wrote)
    /\ UNCHANGED inflight

UpdateSeller(requests) ==
    /\ \E req \in requests : updateSeller(req)
    /\ Persist(Wrote)

UpdateSellerAfterHash ==
    /\ \E i \in 1..Len(inflight) : updateSellerAfterHash(i)
    /\ Persist(Wrote)

Login(requests) ==
    /\ \E req \in requests : login(req)
    /\ Persist(FALSE)

LoginAfterCompare ==
    /\ \E i \in 1..Len(inflight) : loginAfterCompare(i)
    /\ Persist(FALSE)

Register(requests) ==
    /\ \E req \in requests : register(req)
    /\ Persist(FALSE)

RegisterAfterHash ==
    /\ \E i \in 1..Len(inflight) : registerAfterHash(i)
    /\ Persist(Wrote)

CreateSeller(requests) ==
    /\ \E req \in requests : createSeller(req)
    /\ Persist(FALSE)

CreateSellerAfterHash ==
    /\ \E i \in 1..Len(inflight) : createSellerAfterHash(i)
    /\ Persist(Wrote)

ListProducts(requests) ==
    /\ \E req \in requests : listProducts(req)
    /\ Persist(FALSE)
    /\ UNCHANGED inflight

GetProduct(requests) ==
    /\ \E req \in requests : getProduct(req)
    /\ Persist(FALSE)
    /\ UNCHANGED inflight

ListOrders(requests) ==
    /\ \E req \in requests : listOrders(req)
    /\ Persist(FALSE)
    /\ UNCHANGED inflight

GetOrder(requests) ==
    /\ \E req \in requests : getOrder(req)
    /\ Persist(FALSE)
    /\ UNCHANGED inflight

(***************************************************************************)
(* Spec: the life of orders.  Buyers create orders, submit payment proofs  *)
(* and open payment orders; sellers and the superuser change the status;   *)
(* the payment provider calls the webhook.  In any order, any number of    *)
(* times.                                                                  *)
(***************************************************************************)
OrderRefs == 1..MaxOrders

LifeCreateRequests ==
    {CreateOrderRequest("b1", <<Item(1, 1)>>, TRUE)}

LifeStatusRequests ==
    {UpdateStatusRequest("s1", 1, status, NULL) : status \in validStatuses}
      \cup {UpdateStatusRequest("s1", id, "completed", NULL) : id \in OrderRefs}
      \cup {UpdateStatusRequest("s1", 1, "shipped", NULL),
            UpdateStatusRequest("su", 1, "processing", "s2"),
            UpdateStatusRequest("b1", 1, "cancelled", NULL)}

LifeProofRequests ==
    {PaymentProofRequest("b1", id, "proof", TRUE) : id \in OrderRefs}
      \cup {PaymentProofRequest("b1", 1, "proof2", TRUE),
            PaymentProofRequest("b1", 1, "proof", FALSE),
            PaymentProofRequest("b2", 1, "proof", TRUE),
            PaymentProofRequest("s1", 1, "proof", TRUE)}

LifePaymentRequests ==
    {PaymentOrderRequest("b1", 1, 1), PaymentOrderRequest("b1", 1, 0),
     PaymentOrderRequest("b2", 1, 1), PaymentOrderRequest("s1", 1, 1)}

LifeWebhookRequests ==
    {WebhookRequest("array", "PAY_SUCCESS", TradeRef(id), TRUE) : id \in OrderRefs}
      \cup {WebhookRequest("object", "PAY_SUCCESS", TradeRef(1), TRUE),
            WebhookRequest("array", "PAY_SUCCESS", <<"ORDER1">>, TRUE),
            WebhookRequest("array", "PAY_SUCCESS", <<"REFUND", 1>>, TRUE),
            WebhookRequest("array", "PAY_SUCCESS", TradeRef(1), FALSE),
            WebhookRequest("array", "PAY_CLOSED", TradeRef(1), TRUE)}

Init ==
    /\ InitStore([p \in ProductIds |->
                    [price |-> p, stock |-> MaxStock, is_active |-> TRUE]])
    /\ inflight = <<>>
    /\ last = NoAnswer

Next ==
    \/ CreateOrder(LifeCreateRequests)
    \/ UpdateStatus(LifeStatusRequests)
    \/ SubmitPaymentProof(LifeProofRequests)
    \/ CreatePaymentOrder(LifePaymentRequests)
    \/ Webhook(LifeWebhookRequests)

Spec == Init /\ [][Next]_vars

(***************************************************************************)
(* SpecCatalog: orders of well-formed item lists (every quantity a number) *)
(* while the superuser updates and deletes products, and the orders move   *)
(* on.                                                                     *)
(***************************************************************************)
WellFormed(items) == \A k \in 1..Len(items) : ~items[k].qnull

CatalogLists ==
    {<<Item(p, q)>> : p \in ProductIds, q \in 1..MaxQty}
        \cup {<<Item(1, 1), Item(2, 1)>>, <<Item(2, 1), Item(2, 1)>>}

CatalogCreateRequests ==
    {CreateOrderRequest("b1", items, TRUE) : items \in CatalogLists}

CatalogUpdateRequests ==
    {UpdateProductRequest("su", id, price, MaxStock, active, TRUE) :
        id \in ProductIds, price \in Prices, active \in {"true", "absent"}}
      \cup {UpdateProductRequest("su", 1, 1, 0, "true", FALSE),
            UpdateProductRequest("s1", 1, 1, 0, "true", TRUE)}

CatalogDeleteRequests ==
    {DeleteProductRequest("su", id) : id \in ProductIds}

CatalogStatusRequests ==
    {UpdateStatusRequest("s1", 1, status, NULL) : status \in {"processing", "cancelled"}}

CatalogProofRequests == {PaymentProofRequest("b1", 1, "proof", TRUE)}

CatalogWebhookRequests == {WebhookRequest("array", "PAY_SUCCESS", TradeRef(1), TRUE)}

NextCatalog ==
    \/ CreateOrder(CatalogCreateRequests)
    \/ UpdateProduct(CatalogUpdateRequests)
    \/ DeleteProduct(CatalogDeleteRequests)
    \/ UpdateStatus(CatalogStatusRequests)
    \/ SubmitPaymentProof(CatalogProofRequests)
    \/ Webhook(CatalogWebhookRequests)

SpecCatalog == Init /\ [][NextCatalog]_vars

(***************************************************************************)
(* SpecPrices: buyers order while the superuser changes prices and         *)
(* restocks.                                                               *)
(***************************************************************************)
PriceRequests ==
    {UpdateProductRequest("su", id, price, MaxStock, "true", TRUE) :
        id \in ProductIds, price \in Prices}

PricedCreateRequests ==
    {CreateOrderRequest(token, items, TRUE) :
        token \in {"b1", "b2"}, items \in CatalogLists}

NextPrices ==
    \/ CreateOrder(PricedCreateRequests)
    \/ UpdateProduct(PriceRequests)

SpecPrices == Init /\ [][NextPrices]_vars

(***************************************************************************)
(* SpecView: users of every role list and read orders while buyers create *)
(* them and sellers and the superuser move them on.                        *)
(***************************************************************************)
ViewCreateRequests ==
    {CreateOrderRequest(token, <<Item(1, 1)>>, TRUE) : token \in Buyers}

ViewStatusRequests ==
    {UpdateStatusRequest(token, id, status, NULL) :
        token \in Sellers, id \in OrderRefs,
        status \in {"pending", "processing", "completed"}}
      \cup {UpdateStatusRequest("su", 1, "processing", NULL)}

ViewListRequests == {ListOrdersRequest(token) : token \in Tokens}

ViewGetRequests ==
    {GetOrderRequest(token, id) : token \in Tokens, id \in OrderRefs}

NextView ==
    \/ CreateOrder(ViewCreateRequests)
    \/ UpdateStatus(ViewStatusRequests)
    \/ ListOrders(ViewListRequests)
    \/ GetOrder(ViewGetRequests)

SpecView == Init /\ [][NextView]_vars

(***************************************************************************)
(* SpecAuth: every kind of caller (each role, no token, a bad token, a     *)
(* token of no user, a deactivated seller) calls the protected routes.     *)
(***************************************************************************)
\* One caller of each role and of each way not to authenticate; s2 is the
\* seller the superuser deactivates.
AuthTokens == {"b1", "s2", "su", NoToken, BadToken, GhostToken}

AuthCreateRequests ==
    {CreateOrderRequest(t, <<Item(1, 1)>>, TRUE) : t \in AuthTokens}

AuthProofRequests ==
    {PaymentProofRequest(t, 1, "proof", TRUE) : t \in AuthTokens}

AuthStatusRequests ==
    {UpdateStatusRequest(t, 1, "processing", NULL) : t \in AuthTokens}

AuthUpdateRequests ==
    {UpdateProductRequest(t, 1, 2, MaxStock, "true", TRUE) : t \in AuthTokens}

AuthDeleteRequests == {DeleteProductRequest(t, 1) : t \in AuthTokens}

AuthSaleRequests == {AssignSaleRequest(t, "s1", 1, 1, TRUE) : t \in AuthTokens}

AuthSellerRequests == {DeleteSellerRequest(t, "s2") : t \in AuthTokens}

NextAuth ==
    \/ CreateOrder(AuthCreateRequests)
    \/ SubmitPaymentProof(AuthProofRequests)
    \/ UpdateStatus(AuthStatusRequests)
    \/ UpdateProduct(AuthUpdateRequests)
    \/ DeleteProduct(AuthDeleteRequests)
    \/ AssignSale(AuthSaleRequests)
    \/ DeleteSeller(AuthSellerRequests)

SpecAuth == Init /\ [][NextAuth]_vars

(***************************************************************************)
(* SpecDeleted: the superuser deletes products and changes prices while a  *)
(* buyer orders them and reads the catalog and the orders.                 *)
(***************************************************************************)
DeletedCreateRequests ==
    {CreateOrderRequest("b1", items, TRUE) :
        items \in {<<Item(1, 1)>>, <<Item(2, 1)>>, <<Item(1, 1), Item(2, 1)>>}}

DeletedListRequests == {ListProductsRequest}

DeletedProductRequests == {GetProductRequest(id) : id \in ProductIds \cup {3}}

DeletedOrderRequests == {GetOrderRequest("b1", id) : id \in OrderRefs}

NextDeleted ==
    \/ CreateOrder(DeletedCreateRequests)
    \/ DeleteProduct(CatalogDeleteRequests)
    \/ UpdateProduct(PriceRequests)
    \/ ListProducts(DeletedListRequests)
    \/ GetProduct(DeletedProductRequests)
    \/ GetOrder(DeletedOrderRequests)

SpecDeleted == Init /\ [][NextDeleted]_vars

(***************************************************************************)
(* SpecProducts: the superuser creates and updates products with any       *)
(* prices and stocks, negative ones included, and any category.            *)
(***************************************************************************)
ProductCreateRequests ==
    {CreateProductRequest("su", TRUE, price, stock, category, TRUE) :
        price \in {0, 1, -1}, stock \in {0, -1}, category \in {1, 9}}
    \cup {CreateProductRequest("su", FALSE, 1, 0, 1, TRUE),
          CreateProductRequest("su", TRUE, 1, 0, 0, TRUE),
          CreateProductRequest("su", TRUE, 1, 0, 1, FALSE),
          CreateProductRequest("b1", TRUE, 1, 0, 1, TRUE)}

ProductUpdateRequests ==
    {UpdateProductRequest("su", 1, price, stock, "true", TRUE) :
        price \in {0, 1, -1}, stock \in {0, -1}}
    \cup {UpdateProductRequest("su", 3, 1, 0, "true", TRUE),
          UpdateProductRequest("su", 2, 1, 0, NULL, TRUE),
          UpdateProductRequest("su", 1, 1, 0, "true", FALSE),
          UpdateProductRequest("b1", 1, 1, 0, "true", TRUE)}

NextProducts ==
    \/ CreateProduct(ProductCreateRequests)
    \/ UpdateProduct(ProductUpdateRequests)

SpecProducts == Init /\ [][NextProducts]_vars

(***************************************************************************)
(* SpecDisk: writes and reads while the write of the database file fails   *)
(* and succeeds again.                                                     *)
(***************************************************************************)
DiskCreateRequests == {CreateOrderRequest("b1", <<Item(1, 1)>>, TRUE)}

DiskStatusRequests ==
    {UpdateStatusRequest("s1", id, "processing", NULL) : id \in OrderRefs}

DiskWebhookRequests ==
    {WebhookRequest("array", biz, TradeRef(1), TRUE) :
        biz \in {"PAY_SUCCESS", "PAY_CLOSED"}}

NextDisk ==
    \/ CreateOrder(DiskCreateRequests)
    \/ DeleteProduct(CatalogDeleteRequests)
    \/ UpdateProduct(PriceRequests)
    \/ UpdateStatus(DiskStatusRequests)
    \/ Webhook(DiskWebhookRequests)
    \/ GetProduct(DeletedProductRequests)
    \/ DiskFails
    \/ DiskRecovers

SpecDisk == Init /\ [][NextDisk]_vars

(***************************************************************************)
(* SpecSeller: the superuser deactivates, updates and reactivates seller   *)
(* s2, who logs in and uses a token on orders of buyer b1.                 *)
(***************************************************************************)
SellerCreateRequests == {CreateOrderRequest("b1", <<Item(1, 1)>>, TRUE)}

SellerStatusRequests ==
    {UpdateStatusRequest("s2", 1, status, NULL) :
        status \in {"processing", "completed"}}

SellerGetRequests == {GetOrderRequest("s2", 1)}

SellerPaymentRequests == {PaymentOrderRequest("s2", 1, 1)}

SellerDeleteRequests == {DeleteSellerRequest("su", "s2")}

SellerUpdateRequests ==
    {UpdateSellerRequest("su", "s2", active, password) :
        active \in {"true", "false", NULL}, password \in BOOLEAN}
      \cup {UpdateSellerRequest("su", "b1", "true", FALSE),
            UpdateSellerRequest("s2", "s2", "true", FALSE)}

SellerLoginRequests ==
    {LoginRequest("s2", password) : password \in {"matches", "other", NULL}}

NextSeller ==
    \/ CreateOrder(SellerCreateRequests)
    \/ UpdateStatus(SellerStatusRequests)
    \/ GetOrder(SellerGetRequests)
    \/ CreatePaymentOrder(SellerPaymentRequests)
    \/ DeleteSeller(SellerDeleteRequests)
    \/ UpdateSeller(SellerUpdateRequests)
    \/ UpdateSellerAfterHash
    \/ Login(SellerLoginRequests)
    \/ LoginAfterCompare

SpecSeller == Init /\ [][NextSeller]_vars

(***************************************************************************)
(* SpecSignup: visitors register and the superuser creates sellers, with   *)
(* new emails and with stored ones, several requests at a time.            *)
(***************************************************************************)
Emails == {"e1", "e2", "b1"}

SignupRegisterRequests ==
    {RegisterRequest(email, "secret") : email \in Emails}
      \cup {RegisterRequest("e1", NULL)}

SignupSellerRequests ==
    {CreateSellerRequest("su", email, "secret") : email \in Emails}
      \cup {CreateSellerRequest("b1", "e1", "secret")}

NextSignup ==
    \/ Register(SignupRegisterRequests)
    \/ RegisterAfterHash
    \/ CreateSeller(SignupSellerRequests)
    \/ CreateSellerAfterHash

SpecSignup == Init /\ [][NextSignup]_vars


(***************************************************************************)
(* SpecStock: orders of one or two lines are created, claimed and          *)
(* cancelled; no product is updated.  Every product starts with MaxStock.  *)
(***************************************************************************)
StockCreateRequests ==
    {CreateOrderRequest("b1", <<Item(p, q)>>, TRUE) :
        p \in ProductIds, q \in 1..MaxQty}
      \cup {CreateOrderRequest("b1", <<Item(1, 1), Item(1, 1)>>, TRUE),
            CreateOrderRequest("b1", <<Item(1, 1), NullItem(2)>>, TRUE),
            CreateOrderRequest("b1", <<Item(3, 1)>>, TRUE)}

StockStatusRequests ==
    {UpdateStatusRequest("s1", id, status, NULL) :
        id \in OrderRefs, status \in {"processing", "cancelled"}}

NextStock ==
    \/ CreateOrder(StockCreateRequests)
    \/ UpdateStatus(StockStatusRequests)

SpecStock == Init /\ [][NextStock]_vars


(***************************************************************************)
(* SpecRoles: accounts are created, and the superuser updates and          *)
(* deactivates users of every role, the superuser included.                *)
(***************************************************************************)
RolesRegisterRequests == {RegisterRequest("e1", "secret")}

RolesSellerRequests == {CreateSellerRequest("su", "e2", "secret")}

RolesTargets == {"su", "b1", "s2", "n1"}

RolesUpdateRequests ==
    {UpdateSellerRequest("su", id, "false", password) :
        id \in RolesTargets, password \in BOOLEAN}
      \cup {UpdateSellerRequest("su", "s2", "true", FALSE)}

RolesDeleteRequests == {DeleteSellerRequest("su", id) : id \in RolesTargets}

RolesEarningsRequests ==
    {EarningsRequest("su", id, 1, "set") : id \in RolesTargets}

NextRoles ==
    \/ Register(RolesRegisterRequests)
    \/ RegisterAfterHash
    \/ CreateSeller(RolesSellerRequests)
    \/ CreateSellerAfterHash
    \/ UpdateSeller(RolesUpdateRequests)
    \/ UpdateSellerAfterHash
    \/ DeleteSeller(RolesDeleteRequests)
    \/ SetOrAddEarnings(RolesEarningsRequests)

SpecRoles == Init /\ [][NextRoles]_vars

(***************************************************************************)
(* SpecLedger: earnings change through assignSale alone.                   *)
(***************************************************************************)
Amounts == {0, 1, 2, -1}

LedgerRequests ==
    {AssignSaleRequest("su", seller, id, amount, TRUE) :
        seller \in Sellers \cup {"b1", "nobody"}, id \in {0, 1}, amount \in Amounts}
      \cup {AssignSaleRequest("su", seller, 1, 1, FALSE) : seller \in Sellers}
      \cup {AssignSaleRequest("s1", "s1", 1, 1, TRUE)}

InitLedger ==
    /\ InitStore([p \in ProductIds |->
                    [price |-> p, stock |-> MaxStock, is_active |-> TRUE]])
    /\ inflight = <<>>
    /\ last = NoAnswer

NextLedger == AssignSale(LedgerRequests)

SpecLedger == InitLedger /\ [][NextLedger]_vars

(***************************************************************************)
(* SpecEarnings: the superuser assigns sales and adjusts earnings, with    *)
(* any amount the handlers accept.                                         *)
(***************************************************************************)
EarningsSaleRequests ==
    {AssignSaleRequest("su", seller, 1, amount, TRUE) :
        seller \in Sellers, amount \in Amounts}

EarningsAdjustRequests ==
    {EarningsRequest("su", seller, amount, operation) :
        seller \in {"s1"}, amount \in Amounts, operation \in {"add", "set"}}
      \cup {EarningsRequest("su", "s1", 1, "none"),
            EarningsRequest("su", "s1", 1, "double"),
            EarningsRequest("su", "b1", 1, "set"),
            EarningsRequest("s1", "s1", 1, "set")}

NextEarnings ==
    \/ AssignSale(EarningsSaleRequests)
    \/ SetOrAddEarnings(EarningsAdjustRequests)

SpecEarnings == InitLedger /\ [][NextEarnings]_vars

(***************************************************************************)
(* SpecCreate: any number of createOrder requests, on products of any      *)
(* stock, product 2 possibly deleted before.                               *)
(***************************************************************************)
CreateRequests ==
    {CreateOrderRequest("b1", items, TRUE) : items \in ItemLists}
        \cup {CreateOrderRequest("b1", <<Item(1, 1)>>, FALSE),
              CreateOrderRequest("s1", <<Item(1, 1)>>, TRUE),
              CreateOrderRequest(NoToken, <<Item(1, 1)>>, TRUE)}

InitCreate ==
    /\ \E s1 \in 0..MaxStock, s2 \in 0..MaxStock, a2 \in BOOLEAN :
           InitStore([p \in ProductIds |->
                        [price |-> p, stock |-> IF p = 1 THEN s1 ELSE s2,
                         is_active |-> IF p = 1 THEN TRUE ELSE a2]])
    /\ inflight = <<>>
    /\ last = NoAnswer

NextCreate == CreateOrder(CreateRequests)

SpecCreate == InitCreate /\ [][NextCreate]_vars

(***************************************************************************)
(* SpecRace: two requests in flight at the same time, on a store that      *)
(* holds one pending order nobody has claimed.  Each entry of inflight is  *)
(* a request, the store as it was when the request arrived (seen) and the  *)
(* answer once the handler has run.  The runtime picks the order in which  *)
(* it runs the two handlers; each runs to completion.                      *)
(***************************************************************************)
Unanswered(i) == inflight[i].answer.code = 0

HandleInflight(i) ==
    /\ Unanswered(i)
    /\ \/ inflight[i].req.op = "createOrder" /\ createOrder(inflight[i].req)
       \/ inflight[i].req.op = "updateStatus" /\ updateStatus(inflight[i].req)
    /\ inflight' = [inflight EXCEPT ![i].answer = last']
    /\ Persist(Wrote)

RaceRequests ==
    {CreateOrderRequest(token, items, TRUE) :
        token \in {"b1"}, items \in ItemLists \ {<<>>}}
      \cup {UpdateStatusRequest(token, 1, status, NULL) :
              token \in Sellers \cup Superusers, status \in validStatuses}

InitRace ==
    /\ \E s1 \in 0..MaxStock :
           /\ users = InitUsers
           /\ products = [p \in ProductIds |->
                            [price |-> p, stock |-> IF p = 1 THEN s1 ELSE 1,
                             is_active |-> TRUE]]
    /\ orders = <<OrderRow("b2", 2)>>
    /\ order_items = <<ItemRow(products, 1, Item(2, 1))>>
    /\ transactions = <<>>
    /\ seller_earnings = <<>>
    /\ saved = TRUE
    /\ writable = TRUE
    /\ last = NoAnswer
    /\ \E r1 \in RaceRequests, r2 \in RaceRequests :
           inflight = <<[req |-> r1, seen |-> [products |-> products, orders |-> orders],
                         answer |-> NoAnswer],
                        [req |-> r2, seen |-> [products |-> products, orders |-> orders],
                         answer |-> NoAnswer]>>

NextRace == \E i \in 1..Len(inflight) : HandleInflight(i)

SpecRace == InitRace /\ [][NextRace]_vars

(***************************************************************************)
(* Claims checked under SpecCreate.                                        *)
(***************************************************************************)
\* C1: in every state reached by createOrder requests alone, every
\* product's stock is >= 0.
C1_StockNeverNegative == \A p \in DOMAIN products : products[p].stock >= 0

\* C8: a createOrder request that fails while it writes its order_items
\* rows and stock decrements (it is answered 500) leaves the store as it
\* was before the request.
C8_FailedCreateRollsBack ==
    [][(last'.req.op = "createOrder" /\ last'.code = 500) => UNCHANGED store]_vars

(***************************************************************************)
(* Claims checked under SpecRace.                                          *)
(***************************************************************************)
\* The quantity of product p a createOrder request asks for.
RECURSIVE Requested(_, _)
Requested(items, p) ==
    IF items = <<>> THEN 0
    ELSE (IF Head(items).product_id = p THEN Head(items).quantity ELSE 0)
             + Requested(Tail(items), p)

\* A createOrder request for product p alone, every quantity a number.
OrdersOnly(req, p) ==
    /\ req.op = "createOrder"
    /\ req.items # <<>>
    /\ \A k \in 1..Len(req.items) :
           req.items[k].product_id = p /\ ~req.items[k].qnull

\* Entries a and b are two concurrent orders for p, each of which fits the
\* stock they both saw and which together exceed it.
StockRace(a, b, p) ==
    /\ OrdersOnly(a.req, p) /\ OrdersOnly(b.req, p)
    /\ ActiveProduct(a.seen.products, p)
    /\ Requested(a.req.items, p) <= a.seen.products[p].stock
    /\ Requested(b.req.items, p) <= a.seen.products[p].stock
    /\ Requested(a.req.items, p) + Requested(b.req.items, p) > a.seen.products[p].stock

\* a won the race against b: a's order was created, b's was refused for
\* lack of stock, and the stock went down by what a asked for.
OrderWon(a, b, p) ==
    /\ a.answer.code = 201
    /\ b.answer.code = 400 /\ b.answer.error = "InsufficientStock"
    /\ products[p].stock = a.seen.products[p].stock - Requested(a.req.items, p)

Answered(i, j) ==
    i # j /\ inflight[i].answer.code # 0 /\ inflight[j].answer.code # 0

\* C2: of two concurrent createOrder requests for the same product that
\* each fit the stock and together exceed it, exactly one is answered 201,
\* the other 400 InsufficientStock, and the stock ends at the initial stock
\* minus the quantity of the one that succeeded.
C2_ExactlyOneOrderWins ==
    \A i \in 1..Len(inflight), j \in 1..Len(inflight), p \in ProductIds :
        (Answered(i, j) /\ StockRace(inflight[i], inflight[j], p))
            => \/ OrderWon(inflight[i], inflight[j], p)
               \/ OrderWon(inflight[j], inflight[i], p)

\* C2 for requests of one line item each: the handlers run to completion
\* one after the other, so the second sees the stock the first left.
C2_SingleLineOrdersSerialize ==
    \A i \in 1..Len(inflight), j \in 1..Len(inflight), p \in ProductIds :
        (/\ Answered(i, j) /\ StockRace(inflight[i], inflight[j], p)
         /\ Len(inflight[i].req.items) = 1 /\ Len(inflight[j].req.items) = 1)
            => \/ OrderWon(inflight[i], inflight[j], p)
               \/ OrderWon(inflight[j], inflight[i], p)

\* Entries a and b are two sellers claiming order o, pending and without a
\* seller when both requests arrived.
ClaimRace(a, b, o) ==
    /\ a.req.op = "updateStatus" /\ b.req.op = "updateStatus"
    /\ a.req.order_id = o /\ b.req.order_id = o
    /\ a.req.status = "processing" /\ b.req.status = "processing"
    /\ a.req.token \in Sellers /\ b.req.token \in Sellers
    /\ a.req.token # b.req.token
    /\ o \in 1..Len(a.seen.orders)
    /\ a.seen.orders[o].status = "pending"
    /\ a.seen.orders[o].seller_id = NULL

\* a won the claim against b.
ClaimWon(a, b, o) ==
    /\ orders[o].seller_id = a.req.token
    /\ a.answer.code = 200
    /\ b.answer.code = 409

\* C3: of two sellers who concurrently request processing on the same
\* unclaimed pending order, exactly one becomes its seller and the other is
\* answered 409.
C3_ExactlyOneClaimWins ==
    \A i \in 1..Len(inflight), j \in 1..Len(inflight), o \in OrderRefs :
        (Answered(i, j) /\ ClaimRace(inflight[i], inflight[j], o))
            => \/ ClaimWon(inflight[i], inflight[j], o)
               \/ ClaimWon(inflight[j], inflight[i], o)

(***************************************************************************)
(* Claims checked under Spec.                                              *)
(***************************************************************************)
Terminal == {"completed", "cancelled"}

\* C4: once an order's status is completed or cancelled, no step changes it.
C4_TerminalStatusIsFinal ==
    [][\A o \in 1..Len(orders) :
          orders[o].status \in Terminal => orders'[o].status = orders[o].status]_vars

AllowedEdges ==
    {<<"pending", "processing">>, <<"processing", "completed">>,
     <<"pending", "cancelled">>, <<"processing", "cancelled">>}

\* C5: every status change made by updateStatus follows an edge of the
\* state machine, and an updateStatus request that is not answered 200
\* leaves the orders as they were.
C5_StatusFollowsEdges ==
    [][last'.req.op = "updateStatus" =>
          /\ \A o \in 1..Len(orders) :
                 orders'[o].status # orders[o].status
                     => <<orders[o].status, orders'[o].status>> \in AllowedEdges
          /\ last'.code # 200 => orders' = orders]_vars

\* The transactions of order o, oldest first.
TransactionsOf(trans, o) == SelectSeq(trans, LAMBDA t : t.order_id = o)

LatestStatus(trans, o) == TransactionsOf(trans, o)[Len(TransactionsOf(trans, o))].status

\* C10: a PAY_SUCCESS webhook that references an order for which its buyer
\* has submitted a payment proof is answered 200 and leaves the order
\* processing and the order's latest transaction verified.
C10_WebhookConfirmsPayment ==
    [][\A o \in 1..Len(orders) :
          (/\ last'.req.op = "webhook"
           /\ last'.req.bizStatus = "PAY_SUCCESS"
           /\ last'.req.ref = <<"ORDER", o, "timestamp">>
           /\ TransactionsOf(transactions, o) # <<>>)
             => /\ last'.code = 200
                /\ orders'[o].status = "processing"
                /\ LatestStatus(transactions', o) = "verified"]_vars

\* C11: a webhook request whose signature does not verify is answered 401
\* and changes no order and no transaction.
C11_UnsignedWebhookRejected ==
    [][(last'.req.op = "webhook" /\ ~last'.req.signed)
          => (last'.code = 401 /\ UNCHANGED <<orders, transactions>>)]_vars

\* A reference of the form ORDER_<id>_<timestamp>.
WellFormedRef(ref) == Len(ref) = 3 /\ ref[1] = "ORDER"

\* The reference is malformed or names no existing order.
Unresolved(ref) == ~WellFormedRef(ref) \/ ref[2] \notin 1..Len(orders)

\* C12: a PAY_SUCCESS webhook whose trade reference is malformed or names
\* no existing order is answered with an error and changes no order and no
\* transaction.
C12_BadReferenceFailsClosed ==
    [][(/\ last'.req.op = "webhook"
        /\ last'.req.bizStatus = "PAY_SUCCESS"
        /\ Unresolved(last'.req.ref))
          => (last'.code # 200 /\ UNCHANGED <<orders, transactions>>)]_vars

\* C12 for references from which the handler extracts no id of an
\* existing order: those are answered with an error and change nothing.
C12_UnknownOrderRejected ==
    [][(/\ last'.req.op = "webhook"
        /\ last'.req.bizStatus = "PAY_SUCCESS"
        /\ (Len(last'.req.ref) < 2 \/ last'.req.ref[2] \notin 1..Len(orders)))
          => (last'.code # 200 /\ UNCHANGED <<orders, transactions>>)]_vars

\* The index in trans of the most recently created transaction of order o.
LatestIndex(trans, o) ==
    CHOOSE i \in 1..Len(trans) :
        /\ trans[i].order_id = o
        /\ \A j \in 1..Len(trans) : trans[j].order_id = o => j <= i

\* C13: a PAY_SUCCESS webhook for an order that has several transactions
\* sets the most recently created transaction of that order to verified
\* and leaves every other transaction as it was.
C13_OnlyLatestTransactionChanges ==
    [][\A o \in 1..Len(orders) :
          (/\ last'.req.op = "webhook"
           /\ last'.req.form = "array"
           /\ last'.req.bizStatus = "PAY_SUCCESS"
           /\ last'.req.ref = <<"ORDER", o, "timestamp">>
           /\ Len(TransactionsOf(transactions, o)) >= 2)
             => /\ Len(transactions') = Len(transactions)
                /\ transactions'[LatestIndex(transactions, o)].status = "verified"
                /\ \A i \in 1..Len(transactions) :
                       i # LatestIndex(transactions, o)
                           => transactions'[i] = transactions[i]]_vars

\* C18: a submitPaymentProof answered 200 stores the request's proof and
\* txid on the order and appends one pending transaction for the order's
\* total_amount; it changes nothing else (not the order's status, seller
\* or total, no earlier transaction, no stock); and a request of the
\* order's buyer that carries proof and txid is answered 200.
C18_PaymentProofEffect ==
    [][last'.req.op = "submitPaymentProof" =>
          LET req == last'.req
              o == req.order_id
          IN
          /\ last'.code = 200 =>
                /\ o \in 1..Len(orders)
                /\ orders' = [orders EXCEPT ![o].payment_proof = req.payment_proof,
                                            ![o].binance_txid = req.binance_txid]
                /\ transactions' =
                       Append(transactions,
                              [order_id |-> o, user_id |-> req.token,
                               amount |-> orders[o].total_amount,
                               status |-> "pending"])
                /\ UNCHANGED <<users, products, order_items, seller_earnings>>
          /\ (/\ o \in 1..Len(orders)
              /\ orders[o].buyer_id = req.token
              /\ req.complete) => last'.code = 200]_vars

\* C18, the case happens: a second proof was submitted for an order that
\* is no longer pending.
C18_Witness ==
    /\ last.req.op = "submitPaymentProof" /\ last.code = 200
    /\ Len(transactions) >= 2
    /\ orders[last.req.order_id].status # "pending"
    /\ orders[last.req.order_id].payment_proof = "proof2"

\* C26: an updateStatus to processing, answered 200, on an order without a
\* seller leaves the order, in the same step, with status processing and
\* with the seller_id of the body if it has one and the acting user
\* otherwise.
C26_ClaimIsOneStep ==
    [][\A o \in 1..Len(orders) :
          (/\ last'.req.op = "updateStatus" /\ last'.code = 200
           /\ last'.req.order_id = o /\ last'.req.status = "processing"
           /\ orders[o].seller_id = NULL)
             => /\ orders'[o].status = "processing"
                /\ orders'[o].seller_id =
                       (IF last'.req.seller_id # NULL THEN last'.req.seller_id
                                                      ELSE last'.req.token)]_vars

\* C26, the case happens: the superuser has moved an order to processing
\* for seller s2.
C26_Witness ==
    /\ last.req.op = "updateStatus" /\ last.code = 200
    /\ last.req.token = "su" /\ last.req.seller_id = "s2"
    /\ orders[last.req.order_id].seller_id = "s2"
    /\ orders[last.req.order_id].status = "processing"

\* The request passes the guards and the validation of its route.
Admitted(req) ==
    /\ req.token \in DOMAIN users /\ users[req.token].is_active
    /\ \/ req.op = "submitPaymentProof" /\ users[req.token].role = "buyer"
       \/ req.op = "createPaymentOrder" /\ req.amount # 0

\* C27: submitPaymentProof and createPaymentOrder on an order of another
\* buyer are answered 404 and change nothing; createPaymentOrder on the
\* caller's own order changes nothing but that order's binance_txid.
C27_OwnerOnlyPayment ==
    [][\A o \in 1..Len(orders) :
          (/\ last'.req.op \in {"submitPaymentProof", "createPaymentOrder"}
           /\ last'.req.order_id = o
           /\ Admitted(last'.req))
             => IF orders[o].buyer_id # last'.req.token
                THEN last'.code = 404 /\ UNCHANGED store
                ELSE last'.req.op = "createPaymentOrder"
                        => /\ orders' = [orders EXCEPT
                                            ![o].binance_txid = orders'[o].binance_txid]
                           /\ UNCHANGED <<users, products, order_items,
                                          transactions, seller_earnings>>]_vars

\* C27, the case happens: another buyer asked for a payment order on an
\* order that has a seller and a proof.
C27_Witness ==
    /\ last.req.op = "createPaymentOrder" /\ last.code = 404
    /\ last.req.token = "b2"
    /\ last.req.order_id \in 1..Len(orders)
    /\ orders[last.req.order_id].seller_id # NULL

\* C29: a seller_id that is set is never changed or cleared.
C29_SellerIsNeverReplaced ==
    [][\A o \in 1..Len(orders) :
          orders[o].seller_id # NULL
              => orders'[o].seller_id = orders[o].seller_id]_vars

\* C29, the case happens: the superuser asked for processing with seller
\* s2 on an order that seller s1 holds.
C29_Witness ==
    /\ last.req.op = "updateStatus" /\ last.code = 200
    /\ last.req.seller_id = "s2"
    /\ orders[last.req.order_id].seller_id = "s1"

\* C30: every order that is processing or completed has a seller.
C30_ActiveOrdersHaveSeller ==
    \A o \in 1..Len(orders) :
        orders[o].status \in {"processing", "completed"}
            => orders[o].seller_id # NULL

(***************************************************************************)
(* Claims checked under SpecView.                                          *)
(***************************************************************************)
\* The orders the visibility rule shows to user u.
Visible(u) ==
    IF users[u].role = "buyer"
    THEN {o \in 1..Len(orders) : orders[o].buyer_id = u}
    ELSE IF users[u].role = "seller"
    THEN {o \in 1..Len(orders) :
             orders[o].seller_id = u \/ orders[o].status = "pending"}
    ELSE 1..Len(orders)

\* C16: listOrders answers a buyer with exactly that buyer's orders, a
\* seller with exactly the orders assigned to that seller or pending, and
\* a superuser with all orders.
C16_ListShowsVisibleOrders ==
    (last.req.op = "listOrders" /\ last.req.token \in DOMAIN users)
        => (last.code = 200 /\ last.rows = Visible(last.req.token))

\* C16, the case happens: a seller is shown an order of their own that is
\* no longer pending and is not shown another seller's.
C16_Witness ==
    /\ last.req.op = "listOrders" /\ last.req.token \in Sellers
    /\ \E o \in last.rows : orders[o].status # "pending"
    /\ \E o \in 1..Len(orders) : o \notin last.rows

\* C17: for an authenticated user and an existing order, getOrder returns
\* the order exactly when listOrders would include it for that user, and
\* answers 403 otherwise.
C17_GetAgreesWithList ==
    (/\ last.req.op = "getOrder"
     /\ last.req.token \in DOMAIN users
     /\ last.req.order_id \in 1..Len(orders))
        => IF last.req.order_id \in ListQuery(last.req.token)
           THEN last.code = 200 /\ last.rows = {last.req.order_id}
           ELSE last.code = 403

\* C17, the case happens: a seller is refused another seller's order while
\* an order nobody has claimed exists.
C17_Witness ==
    /\ last.req.op = "getOrder" /\ last.req.token \in Sellers
    /\ last.code = 403
    /\ orders[last.req.order_id].seller_id \in Sellers \ {last.req.token}
    /\ \E o \in 1..Len(orders) : orders[o].seller_id = NULL

(***************************************************************************)
(* Claims checked under SpecAuth.                                          *)
(***************************************************************************)
\* The token is absent, invalid or expired, or resolves to a missing or
\* inactive user.
Unauthenticated(token) ==
    \/ token \in {NoToken, BadToken}
    \/ token \notin DOMAIN users
    \/ ~users[token].is_active

\* C19: a request to a protected route that does not authenticate is
\* answered 401 and the store is left as it was.
C19_UnauthenticatedGets401 ==
    [][(last'.req.op # "none" /\ Unauthenticated(last'.req.token))
          => (last'.code = 401 /\ UNCHANGED store)]_vars

\* C19 without the status code: a request that does not authenticate is
\* answered 401 or 403 and the store is left as it was.
C19_UnauthenticatedIsRefused ==
    [][(last'.req.op # "none" /\ Unauthenticated(last'.req.token))
          => (last'.code \in {401, 403} /\ UNCHANGED store)]_vars

\* The roles each operation is open to.
AllowedRoles(op) ==
    CASE op \in {"createOrder", "submitPaymentProof"} -> {"buyer"}
      [] op = "updateStatus" -> {"seller", "superuser"}
      [] op \in {"updateProduct", "deleteProduct", "assignSale", "deleteSeller"}
             -> {"superuser"}
      [] OTHER -> {"buyer", "seller", "superuser"}

\* C20: a request of an authenticated user whose role is not among the
\* roles of the operation is answered 403 and changes nothing; a role
\* that is among them is never answered 403.  No role stands in for
\* another.
C20_RoleIsSetMembership ==
    [][(last'.req.op # "none" /\ ~Unauthenticated(last'.req.token)) =>
          IF users[last'.req.token].role \in AllowedRoles(last'.req.op)
          THEN last'.code # 403
          ELSE last'.code = 403 /\ UNCHANGED store]_vars

\* C20, the case happens: the superuser is refused on a buyer-only route.
C20_Witness ==
    /\ last.req.op = "createOrder" /\ last.code = 403
    /\ last.req.token \in Superusers

(***************************************************************************)
(* Claims checked under SpecCreate and SpecLedger.                         *)
(***************************************************************************)
RECURSIVE ItemsTotal(_, _)
ItemsTotal(rows, o) ==
    IF rows = <<>> THEN 0
    ELSE (IF Head(rows).order_id = o THEN Head(rows).quantity * Head(rows).price ELSE 0)
             + ItemsTotal(Tail(rows), o)

\* C6: every order's total_amount is the sum of quantity * price over its
\* order_items rows, in every state.
C6_TotalMatchesItems ==
    \A o \in 1..Len(orders) : orders[o].total_amount = ItemsTotal(order_items, o)

\* The item names no active product, or asks for more than the stock.
BadLine(item) ==
    \/ item.product_id \notin DOMAIN products
    \/ ~products[item.product_id].is_active
    \/ (~item.qnull /\ item.quantity > products[item.product_id].stock)

\* The request of a buyer that the claim says is rejected.
Rejected(req) ==
    /\ req.op = "createOrder"
    /\ req.token \in DOMAIN users /\ users[req.token].role = "buyer"
    /\ \/ req.items = <<>>
       \/ ~req.contact
       \/ \E k \in 1..Len(req.items) : BadLine(req.items[k])

\* C14: a createOrder request with an empty item list, without contact
\* name or email, or with an item that names a missing or inactive product
\* or exceeds the stock is answered 400 and leaves the store as it was.
C14_RejectedCreateChangesNothing ==
    [][Rejected(last'.req) => (last'.code = 400 /\ UNCHANGED store)]_vars

\* C14, the case happens: the second item of a list is refused for lack of
\* stock after a first item that is valid.
C14_Witness ==
    /\ last.req.op = "createOrder" /\ last.code = 400
    /\ last.error = "InsufficientStock"
    /\ Len(last.req.items) = 2
    /\ ~BadLine(last.req.items[1]) /\ ~last.req.items[1].qnull
    /\ BadLine(last.req.items[2])

\* Sum of price * quantity over the items, at the prices of prods.
RECURSIVE LinesTotal(_, _)
LinesTotal(prods, items) ==
    IF items = <<>> THEN 0
    ELSE prods[Head(items).product_id].price * Head(items).quantity
             + LinesTotal(prods, Tail(items))

\* C15: a createOrder answered 201 appends one order (pending, no seller,
\* the caller as buyer, total the sum of price * quantity), appends one
\* order_items row per item at the product's price of that moment, lowers
\* each product's stock by the quantity ordered of it, and changes nothing
\* else.
C15_CreateOrderEffect ==
    [][(last'.req.op = "createOrder" /\ last'.code = 201) =>
          LET items == last'.req.items
              n == Len(orders) + 1
          IN
          /\ Len(orders') = n
          /\ SubSeq(orders', 1, n - 1) = orders
          /\ orders'[n].status = "pending"
          /\ orders'[n].seller_id = NULL
          /\ orders'[n].buyer_id = last'.req.token
          /\ orders'[n].total_amount = LinesTotal(products, items)
          /\ order_items' = order_items \o
                 [k \in 1..Len(items) |->
                     [order_id |-> n, product_id |-> items[k].product_id,
                      quantity |-> items[k].quantity,
                      price |-> products[items[k].product_id].price]]
          /\ \A p \in DOMAIN products :
                 products'[p] = [products[p] EXCEPT
                                    !.stock = @ - Requested(items, p)]
          /\ UNCHANGED <<users, transactions, seller_earnings>>]_vars

\* C15, the case happens: an order of two items was created after a
\* product's price had been changed.
C15_Witness ==
    /\ last.req.op = "createOrder" /\ last.code = 201
    /\ Len(last.req.items) = 2
    /\ \E k \in 1..Len(order_items) :
           /\ order_items[k].order_id = Len(orders)
           /\ order_items[k].price # order_items[k].product_id

RECURSIVE LedgerTotal(_, _)
LedgerTotal(rows, seller) ==
    IF rows = <<>> THEN 0
    ELSE (IF Head(rows).seller_id = seller THEN Head(rows).amount ELSE 0)
             + LedgerTotal(Tail(rows), seller)

\* C7: when earnings change through assignSale alone, each seller's
\* seller_earnings amounts add up to that seller's users.earnings.
C7_LedgerReconciles ==
    \A u \in DOMAIN users : LedgerTotal(seller_earnings, u) = users[u].earnings

\* C7, the case happens: a seller has been credited twice.
C7_Witness ==
    \E u \in DOMAIN users :
        /\ Cardinality(SelectIdx(seller_earnings, LAMBDA r : r.seller_id = u)) >= 2
        /\ users[u].earnings > 0

C22_ProductsAreValid ==
    \A p \in DOMAIN products : products[p].price > 0 /\ products[p].stock >= 0

\* C23: when the handler of a write has answered 200 or 201, the database
\* file holds the store.
C23_SuccessMeansDurable ==
    (/\ last.req.op \in {"createOrder", "deleteProduct", "updateProduct",
                         "updateStatus"}
     /\ last.code \in {200, 201}) => saved

\* C28: while a seller is inactive, every request that arrives with the
\* seller's token is answered 401 and writes nothing, a login that arrives
\* for the seller is refused at once, and only an answered updateSeller
\* call for the seller makes the seller active again.
C28_InactiveSellerIsLockedOut ==
    [][\A s \in Sellers : ~users[s].is_active =>
          /\ (last' # last /\ "token" \in DOMAIN last'.req /\ last'.req.token = s)
                 => (last'.code = 401 /\ UNCHANGED store)
          /\ (last' # last /\ inflight' = inflight /\ last'.req.op = "login"
                 /\ last'.req.email = users[s].email)
                 => last'.code \in {400, 401}
          /\ Len(inflight') > Len(inflight)
                 => ~(/\ inflight'[Len(inflight')].req.op = "login"
                      /\ inflight'[Len(inflight')].req.email = users[s].email)
          /\ users'[s].is_active
                 => (last'.req.op = "updateSeller" /\ last'.req.id = s
                        /\ last'.code = 200)]_vars

\* C28, the case happens: seller s2, deactivated, is refused the claim of a
\* pending order.
C28_Witness ==
    /\ ~users["s2"].is_active
    /\ last.req.op = "updateStatus" /\ last.req.token = "s2"
    /\ last.code = 401
    /\ \E o \in 1..Len(orders) : orders[o].status = "pending"

\* C24: no account creation is answered 500: of two for the same email the
\* one that does not create the user is answered 400.
C24_DuplicateIsAnswered400 ==
    last.req.op \in {"register", "createSeller"} => last.code # 500

\* C25: every user's earnings is >= 0.
C25_EarningsNeverNegative == \A u \in DOMAIN users : users[u].earnings >= 0

\* The items of order o, as stored.
StoredItems(o) ==
    {[product_id |-> order_items[k].product_id,
      quantity |-> order_items[k].quantity, price |-> order_items[k].price] :
        k \in {i \in 1..Len(order_items) : order_items[i].order_id = o}}

\* C21: a deleted product is not in the answer of listProducts, getProduct
\* answers 404 for it, a createOrder that names it is answered 400, and
\* getOrder still returns every stored item of the order, those of deleted
\* products included, with quantity and captured price.
C21_DeletedProductStaysInOrders ==
    /\ last.req.op = "listProducts" =>
           \A p \in last.rows : products[p].is_active
    /\ (last.req.op = "getProduct" /\ last.req.id \in DOMAIN products
            /\ ~products[last.req.id].is_active) => last.code = 404
    /\ (/\ last.req.op = "createOrder"
        /\ \E k \in 1..Len(last.req.items) :
               /\ last.req.items[k].product_id \in DOMAIN products
               /\ ~products[last.req.items[k].product_id].is_active)
           => last.code = 400
    /\ (last.req.op = "getOrder" /\ last.code = 200)
           => last.items = StoredItems(last.req.order_id)

\* C21, the case happens: an order is read that holds an item of a product
\* deleted since, at a price the product no longer has.
C21_Witness ==
    /\ last.req.op = "getOrder" /\ last.code = 200
    /\ \E it \in last.items :
           /\ ~products[it.product_id].is_active
           /\ it.price # products[it.product_id].price


\* C31: the seller of an order, once set, is a user whose role is seller.
C31_SellerIsASeller ==
    \A o \in 1..Len(orders) :
        orders[o].seller_id # NULL
            => (/\ orders[o].seller_id \in DOMAIN users
                /\ users[orders[o].seller_id].role = "seller")

\* C32: updateStatus by a seller on an order that has another seller is
\* refused and leaves the orders unchanged.
C32_SellerChangesOwnOrdersOnly ==
    [][(/\ last' # last
        /\ last'.req.op = "updateStatus"
        /\ last'.req.token \in Sellers
        /\ last'.req.order_id \in 1..Len(orders)
        /\ orders[last'.req.order_id].seller_id \notin {NULL, last'.req.token})
          => (last'.code \in {403, 404} /\ orders' = orders)]_vars


\* The units of product p in the order_items rows.
RECURSIVE Ordered(_, _)
Ordered(rows, p) ==
    IF rows = <<>> THEN 0
    ELSE (IF Head(rows).product_id = p THEN Head(rows).quantity ELSE 0)
             + Ordered(Tail(rows), p)

\* C34: without product updates, the stock of every product plus the units
\* of it in all order_items rows is the stock the product started with,
\* whatever the status of the orders.
C34_StockPlusOrderedIsInitial ==
    \A p \in DOMAIN products :
        products[p].stock + Ordered(order_items, p) = MaxStock

\* C34, the case happens: an order of two units is cancelled and the units
\* are still missing from the stock.
C34_Witness ==
    /\ last.req.op = "updateStatus" /\ last.code = 200
    /\ orders[last.req.order_id].status = "cancelled"
    /\ \E k \in 1..Len(order_items) :
           /\ order_items[k].order_id = last.req.order_id
           /\ order_items[k].quantity = 2
           /\ products[order_items[k].product_id].stock < MaxStock


\* C35: there is at most one seller_earnings row per order.
C35_OrderIsCreditedOnce ==
    \A i, j \in 1..Len(seller_earnings) :
        seller_earnings[i].order_id = seller_earnings[j].order_id => i = j

\* C33: an updateSeller with a password and no is_active that finishes while
\* the seller is inactive leaves the seller inactive.
C33_UpdateKeepsDeactivation ==
    [][(/\ last' # last
        /\ last'.req.op = "updateSeller" /\ last'.code = 200
        /\ last'.req.password /\ last'.req.is_active = NULL
        /\ ~users[last'.req.id].is_active)
          => ~users'[last'.req.id].is_active]_vars


\* C36: no step changes the role of a user or removes a user, a user that
\* is not a seller is left as it is, and a new user is a buyer when created
\* by register and a seller when created by createSeller: the superusers
\* and their active flags never change.
C36_RolesAreFixed ==
    [][/\ \A u \in DOMAIN users :
              /\ u \in DOMAIN users'
              /\ users'[u].role = users[u].role
              /\ users[u].role # "seller" => users'[u] = users[u]
       /\ \A u \in DOMAIN users' \ DOMAIN users :
              \/ last'.req.op = "register" /\ users'[u].role = "buyer"
              \/ last'.req.op = "createSeller" /\ users'[u].role = "seller"]_vars

\* C36, the case happens: the deactivation of the superuser was requested
\* and answered 200 after a buyer registered and a seller was created, and
\* the superuser is active.
C36_Witness ==
    /\ last.req.op = "deleteSeller" /\ last.req.seller = "su" /\ last.code = 200
    /\ users["su"].is_active
    /\ \E u, v \in DOMAIN users \ UserIds :
           users[u].role = "buyer" /\ users[v].role = "seller"


\* C37: an updateProduct whose body has no is_active leaves the active flag
\* of every product as it was.
C37_UpdateKeepsActiveFlag ==
    [][(/\ last' # last
        /\ last'.req.op = "updateProduct"
        /\ last'.req.is_active = NULL)
          => \A p \in DOMAIN products :
                 products'[p].is_active = products[p].is_active]_vars

====
